---- MODULE Spec2Model ----
(***************************************************************************)
(* RadixEngine resource layer: Resources (texture loading and binding,     *)
(* shader compilation, program enabling), the Shader location cache and    *)
(* the StdoutLogger, as state machines over an explicit record of the      *)
(* OpenGL driver state the code drives.                                    *)
(***************************************************************************)
EXTENDS Integers, Sequences, FiniteSets, TLC

VARIABLES
  textures,        \* Resources::textures : TEXTURE_ID -> GLuint
  texInfo,         \* per identifier, what the last createTexture call for it did
  loads,           \* number of loadTextures calls so far
  texNames,        \* driver: last texture name handed out by glGenTextures
  texObj,          \* driver: texture objects, name -> [image, wrapS, wrapT]
  activeTexture,   \* driver: active texture unit (0 or 1)
  boundTexture,    \* driver: GL_TEXTURE_2D binding of each unit
  programs,        \* Resources::programs : PROGRAM_ID -> GLuint
  progInfo,        \* per program index, what the last compileShaders call did for it
  compiles,        \* number of compileShaders calls so far
  objNames,        \* driver: last shader/program object name handed out
  shaderObj,       \* driver: shader objects, name -> [type, source, compiled, log]
  progObj,         \* driver: program objects, name -> [attached, linkRun, linked, ...]
  currentProgram,  \* driver: the program in use (0: fixed function)
  glErrors,        \* driver: recorded error flags, in the order glGetError returns them
  stdout,          \* lines written by printf
  crashed,         \* the process died (an outcome of undefined behaviour)
  lastCall,        \* the most recent call on Resources and its argument
  locationMap,     \* Shader::locationMap, as its set of (name, location) entries
  gpuQueries,      \* per name, how many location queries went to the driver
  returned,        \* per name, the set of locations uni/att have returned
  lastResolve,     \* the most recent uni/att call and its result
  cout,            \* the characters written to std::cout
  logCalls         \* the arguments of the log calls so far, in call order

vars == << textures, texInfo, loads, texNames, texObj, activeTexture,
           boundTexture, programs, progInfo, compiles, objNames, shaderObj,
           progObj, currentProgram, glErrors, stdout, crashed, lastCall,
           locationMap, gpuQueries, returned, lastResolve, cout, logCalls >>

resourceVars ==
  << textures, texInfo, loads, texNames, texObj, activeTexture,
     boundTexture, programs, progInfo, compiles, objNames, shaderObj,
     progObj, currentProgram, glErrors, stdout, crashed, lastCall >>

shaderVars == << locationMap, gpuQueries, returned, lastResolve >>

loggerVars == << cout, logCalls >>

\* ------------------------------------------------------------- bounds
MaxLoads == 1
MaxCompiles == 1
MaxLogCalls == 3
NumErrorFlags == 2

\* ------------------------------------------------ OpenGL enumerants
GL_NO_ERROR == 0
GL_INVALID_VALUE == 1281
GL_INVALID_OPERATION == 1282
GL_OUT_OF_MEMORY == 1285

\* ------------------------------------------------------ identifiers
texture_order ==
  << "TID_WALL", "TID_WALL_NMAP", "TID_TILES", "TID_TILES_NMAP",
     "TID_ACID", "TID_ACID_NMAP" >>

NUM_TEXTURES == Len(texture_order)

TEXTURE_ID == { texture_order[i] : i \in 1..NUM_TEXTURES }

\* NUM_SHADERS is the bound of the loop in compileShaders; two programs
\* show a failure in one and the loop going on to the next.
NUM_SHADERS == 2

PROGRAM_ID == 0..(NUM_SHADERS - 1)

\* The record kept in lastCall: the method, and its texture or program argument.
Call(op, id, pid) == [op |-> op, id |-> id, pid |-> pid]

\* ------------------------------------------------------ driver model
\* The driver state threaded through a call.
GLState ==
  [ names |-> texNames, obj |-> texObj, active |-> activeTexture,
    bound |-> boundTexture, pnames |-> objNames, shaders |-> shaderObj,
    progs |-> progObj, current |-> currentProgram, errors |-> glErrors,
    out |-> stdout, crashed |-> crashed ]

\* An error is recorded while a flag is free; later ones are dropped until
\* glGetError frees a flag.
glRaise(g, e) ==
  IF Len(g.errors) < NumErrorFlags
    THEN [g EXCEPT !.errors = Append(@, e)]
    ELSE g

RECURSIVE glRaiseAll(_, _)
glRaiseAll(g, es) ==
  IF es = << >> THEN g ELSE glRaiseAll(glRaise(g, Head(es)), Tail(es))

glActiveTexture(g, unit) == [g EXCEPT !.active = unit]

glBindTexture(g, h) == [g EXCEPT !.bound[g.active] = h]

\* glGenTextures(1, &handle): a previously unused, non-zero name.
glGenTextures(g) ==
  [g EXCEPT !.names = @ + 1,
            !.obj = [h \in 1..(g.names + 1) |->
                       IF h <= g.names THEN g.obj[h]
                       ELSE [image |-> "none", wrapS |-> "default", wrapT |-> "default"]]]

glTexParameterf(g, axis, mode) ==
  LET h == g.bound[g.active] IN
  IF h \in DOMAIN g.obj
    THEN IF axis = "S" THEN [g EXCEPT !.obj[h].wrapS = mode]
                       ELSE [g EXCEPT !.obj[h].wrapT = mode]
    ELSE g

\* glGetError(): the value returned, and the state with that flag reset.
glGetErrorValue(g) == IF g.errors = << >> THEN GL_NO_ERROR ELSE Head(g.errors)

glGetErrorState(g) == IF g.errors = << >> THEN g ELSE [g EXCEPT !.errors = Tail(@)]

printf(g, line) == [g EXCEPT !.out = Append(@, line)]

\* ---------------------------------------------------- createTexture
\* What the environment and the build decide for one createTexture call:
\*   file : what stbi_load finds at the path
\*   n    : the value read from the uninitialised `n` when stbi_load fails
\*   ub   : what gluBuild2DMipmaps does with a null image and garbage sizes
\*   errs : the errors the driver raises while uploading a decoded image,
\*          each code at most once, in the order it raises them
UploadErrors == {GL_INVALID_VALUE, GL_OUT_OF_MEMORY}

ErrSeqs ==
  { << >> } \cup { << e >> : e \in UploadErrors }
    \cup { p \in UploadErrors \X UploadErrors : p[1] # p[2] }

GarbageN == {3, 4, 7}

TexInputs ==
       [file : {"rgb", "rgba"}, n : {0}, ub : {"none"}, errs : ErrSeqs]
  \cup [file : {"gray"}, n : {0}, ub : {"none"}, errs : {<< >>}]
  \cup { in \in [file : {"missing"}, n : GarbageN, ub : {"crash", "rejected"},
                 errs : {<< >>}] :
           in.n \notin {3, 4} => in.ub = "rejected" }

DefaultTexInput == [file |-> "rgb", n |-> 0, ub |-> "none", errs |-> << >>]

\* Every file decodes as RGB except at most one, which is anything.
TexConfigs ==
  { [id \in TEXTURE_ID |-> IF id = v THEN in ELSE DefaultTexInput] :
      v \in TEXTURE_ID, in \in TexInputs }

Channels(file) == CASE file = "rgb" -> 3 [] file = "rgba" -> 4 [] OTHER -> 1

ErrorLine(error) == << "Error: ", error >>

\* Faulty variant: `if` in place of `while`, only the first error is printed.
printErrors_once(g, error) ==
  IF error # GL_NO_ERROR THEN printf(g, ErrorLine(error)) ELSE g

\* while(error != GL_NO_ERROR) { printf(...); error = glGetError(); }
RECURSIVE printErrors(_, _)
printErrors(g, error) ==
  IF error # GL_NO_ERROR
    THEN printErrors(glGetErrorState(printf(g, ErrorLine(error))),
                     glGetErrorValue(printf(g, ErrorLine(error))))
    ELSE g

\* gluBuild2DMipmaps on the bound texture: with the null image and garbage
\* sizes of a failed decode it either dies or rejects its arguments; with a
\* decoded image it uploads, and the driver may record errors.
gluBuild2DMipmaps(g, format, in) ==
  IF in.file = "missing"
    THEN IF in.ub = "crash" THEN [g EXCEPT !.crashed = TRUE] ELSE g
    ELSE glRaiseAll([g EXCEPT !.obj[g.bound[g.active]].image =
                                 IF in.errs = << >> THEN format ELSE "undefined"],
                    in.errs)

createTexture(g, in) ==
  LET g0 == glGenTextures(g)
      handle == g0.names
      g1 == glBindTexture(g0, handle)
      decoded == in.file # "missing"
      n == IF decoded THEN Channels(in.file) ELSE in.n
      g2 == IF n = 3 THEN gluBuild2DMipmaps(g1, "GL_RGB", in)
            ELSE IF n = 4 THEN gluBuild2DMipmaps(g1, "GL_RGBA", in)
            ELSE g1
      g3 == glTexParameterf(glTexParameterf(g2, "S", "GL_REPEAT"), "T", "GL_REPEAT")
      g4 == printErrors(glGetErrorState(g3), glGetErrorValue(g3))
  IN  IF g2.crashed
        THEN [g |-> g2, returned |-> FALSE, handle |-> handle,
              info |-> [state |-> "crashed", decoded |-> decoded,
                        uploadCalled |-> TRUE, pending |-> << >>,
                        logged |-> << >>, handle |-> handle]]
        ELSE [g |-> g4, returned |-> TRUE, handle |-> handle,
              info |-> [state |-> "returned", decoded |-> decoded,
                        uploadCalled |-> (n = 3 \/ n = 4), pending |-> g3.errors,
                        logged |-> SubSeq(g4.out, Len(g3.out) + 1, Len(g4.out)),
                        handle |-> handle]]

NoTexInfo ==
  [state |-> "none", decoded |-> FALSE, uploadCalled |-> FALSE, pending |-> << >>,
   logged |-> << >>, handle |-> 0]

\* for(i = 0; i < NUM_TEXTURES; i++) textures[i] = createTexture(texture_files[i]);
RECURSIVE loadLoop(_, _, _)
loadLoop(s, cfg, i) ==
  IF i > NUM_TEXTURES \/ s.g.crashed THEN s
  ELSE LET id == texture_order[i]
           r == createTexture(s.g, cfg[id])
       IN  loadLoop([g |-> r.g,
                     textures |-> IF r.returned
                                    THEN [s.textures EXCEPT ![id] = r.handle]
                                    ELSE s.textures,
                     info |-> [s.info EXCEPT ![id] = r.info]],
                    cfg, i + 1)

InstallGL(g) ==
  /\ texNames' = g.names
  /\ texObj' = g.obj
  /\ activeTexture' = g.active
  /\ boundTexture' = g.bound
  /\ objNames' = g.pnames
  /\ shaderObj' = g.shaders
  /\ progObj' = g.progs
  /\ currentProgram' = g.current
  /\ glErrors' = g.errors
  /\ stdout' = g.out
  /\ crashed' = g.crashed

loadTextures(cfg) ==
  /\ ~crashed
  /\ loads < MaxLoads
  /\ LET s == loadLoop([g |-> GLState, textures |-> textures,
                        info |-> [id \in TEXTURE_ID |-> NoTexInfo]], cfg, 1)
     IN  /\ InstallGL(s.g)
         /\ textures' = s.textures
         /\ texInfo' = s.info
  /\ loads' = loads + 1
  /\ lastCall' = Call("loadTextures", "", -1)
  /\ UNCHANGED << programs, progInfo, compiles >>
  /\ UNCHANGED << shaderVars, loggerVars >>

\* ------------------------------------------------------ bindTexture
\* Faulty variant: the TID_TILES branch binds the wall's normal map.
bindTextureGL_copyPaste(g, tex, id) ==
  LET g1 == glBindTexture(glActiveTexture(g, 0), tex[id]) IN
  IF id = "TID_WALL" \/ id = "TID_TILES"
    THEN glBindTexture(glActiveTexture(g1, 1), tex["TID_WALL_NMAP"])
  ELSE IF id = "TID_ACID"
    THEN glBindTexture(glActiveTexture(g1, 1), tex["TID_ACID_NMAP"])
  ELSE g1

bindTextureGL(g, tex, id) ==
  LET g1 == glBindTexture(glActiveTexture(g, 0), tex[id]) IN
  IF id = "TID_WALL"
    THEN glBindTexture(glActiveTexture(g1, 1), tex["TID_WALL_NMAP"])
  ELSE IF id = "TID_TILES"
    THEN glBindTexture(glActiveTexture(g1, 1), tex["TID_TILES_NMAP"])
  ELSE IF id = "TID_ACID"
    THEN glBindTexture(glActiveTexture(g1, 1), tex["TID_ACID_NMAP"])
  ELSE g1

\* Faulty variant: binding generates a new name into textures[id] before binding it.
bindTexture_regenerates(id) ==
  /\ ~crashed
  /\ texNames < 2 * NUM_TEXTURES * MaxLoads
  /\ LET g == glGenTextures(GLState)
         tex == [textures EXCEPT ![id] = g.names]
     IN  /\ InstallGL(bindTextureGL(g, tex, id))
         /\ textures' = tex
  /\ lastCall' = Call("bindTexture", id, -1)
  /\ UNCHANGED << texInfo, loads, programs, progInfo, compiles >>
  /\ UNCHANGED << shaderVars, loggerVars >>

bindTexture(id) ==
  /\ ~crashed
  /\ InstallGL(bindTextureGL(GLState, textures, id))
  /\ lastCall' = Call("bindTexture", id, -1)
  /\ UNCHANGED << textures, texInfo, loads, programs, progInfo, compiles >>
  /\ UNCHANGED << shaderVars, loggerVars >>

\* ------------------------------------------- shader and program objects
NewProgram ==
  [attached |-> {}, linkRun |-> FALSE, linked |-> FALSE, log |-> FALSE,
   uniforms |-> << >>, values |-> << >>]

NewShader(type) ==
  [type |-> type, source |-> "none", compiled |-> FALSE, log |-> FALSE]

\* glCreateProgram / glCreateShader: the new object's name is g.pnames.
glCreateProgram(g) ==
  [g EXCEPT !.pnames = @ + 1, !.progs = @ @@ ((g.pnames + 1) :> NewProgram)]

glCreateShader(g, type) ==
  [g EXCEPT !.pnames = @ + 1, !.shaders = @ @@ ((g.pnames + 1) :> NewShader(type))]

glShaderSource(g, sh, src) == [g EXCEPT !.shaders[sh].source = src]

\* The source text decides the compile: "ok" compiles silently, "warn"
\* compiles with a log, "bad" fails with a log.
glCompileShader(g, sh) ==
  [g EXCEPT !.shaders[sh].compiled = (g.shaders[sh].source \in {"ok", "warn"}),
            !.shaders[sh].log = (g.shaders[sh].source # "ok")]

glAttachShader(g, p, sh) == [g EXCEPT !.progs[p].attached = @ \cup {sh}]

\* Linking fails when an attached shader did not compile, or when the stages
\* do not fit (link = "bad"); a linked program has its active uniforms, each
\* sampler starting at 0.
glLinkProgram(g, p, link, uniforms) ==
  LET ok == /\ \A sh \in g.progs[p].attached : g.shaders[sh].compiled
            /\ link # "bad"
  IN  [g EXCEPT !.progs[p].linkRun = TRUE,
                !.progs[p].linked = ok,
                !.progs[p].log = (~ok \/ link = "warn"),
                !.progs[p].uniforms = IF ok THEN uniforms ELSE << >>,
                !.progs[p].values = IF ok THEN [k \in 1..Len(uniforms) |-> 0]
                                          ELSE << >>]

\* Faulty variant: the driver makes any program current, linked or not.
glUseProgram_unchecked(g, p) == [g EXCEPT !.current = p]

\* glUseProgram: zero selects the fixed-function pipeline; a program that is
\* not successfully linked is refused with GL_INVALID_OPERATION and the
\* current program is kept.
glUseProgram(g, p) ==
  IF p = 0 THEN [g EXCEPT !.current = 0]
  ELSE IF p \notin DOMAIN g.progs THEN glRaise(g, GL_INVALID_VALUE)
  ELSE IF ~g.progs[p].linked THEN glRaise(g, GL_INVALID_OPERATION)
  ELSE [g EXCEPT !.current = p]

UniformIndex(names, name) ==
  IF \E k \in 1..Len(names) : names[k] = name
    THEN (CHOOSE k \in 1..Len(names) : names[k] = name) - 1
    ELSE -1

\* glGetUniformLocation: the location returned, and the state (an error is
\* recorded for a name that is no program or for an unlinked program).
glGetUniformLocationValue(g, p, name) ==
  IF p \notin DOMAIN g.progs \/ ~g.progs[p].linked
    THEN -1
    ELSE UniformIndex(g.progs[p].uniforms, name)

glGetUniformLocationState(g, p, name) ==
  IF p \notin DOMAIN g.progs THEN glRaise(g, GL_INVALID_VALUE)
  ELSE IF ~g.progs[p].linked THEN glRaise(g, GL_INVALID_OPERATION)
  ELSE g

\* glUniform1i acts on the program in use; location -1 is silently ignored.
glUniform1i(g, location, v) ==
  IF location = -1 THEN g
  ELSE IF g.current = 0 THEN glRaise(g, GL_INVALID_OPERATION)
  ELSE IF location + 1 \notin DOMAIN g.progs[g.current].values
    THEN glRaise(g, GL_INVALID_OPERATION)
  ELSE [g EXCEPT !.progs[g.current].values[location + 1] = v]

\* GLint -> GLuint -> GLint, 32 bits wide, as two 16-bit halves.
Half == 65536

ToGLuint(x) ==
  IF x >= 0 THEN << x \div Half, x % Half >>
            ELSE << (Half - 1) - ((-x - 1) \div Half), (Half - 1) - ((-x - 1) % Half) >>

ToGLint(u) ==
  IF u[1] >= Half \div 2 THEN (u[1] - Half) * Half + u[2] ELSE u[1] * Half + u[2]

\* ---------------------------------------------------- compileShaders
\* What the environment and the build decide for one shader file:
\*   file    : "ok", "warn", "bad" (readable text, by how it compiles) or "missing"
\*   ub      : for a missing file, readShader's write to buffer[-1] and its
\*             unterminated buffer: the process dies in the read, dies when the
\*             buffer is freed, or goes on
\*   garbage : how the bytes left in the buffer compile
StageInputs ==
       [file : {"ok", "warn", "bad"}, ub : {"none"}, garbage : {"none"}]
  \cup [file : {"missing"}, ub : {"crash_read"}, garbage : {"none"}]
  \cup [file : {"missing"}, ub : {"crash_free", "survive"}, garbage : {"ok", "bad"}]

ValidStage == [file |-> "ok", ub |-> "none", garbage |-> "none"]

UniformLists == { << >>, << "tex" >>, << "tex", "nmap" >>, << "nmap", "tex" >> }

DefaultProgInput ==
  [vs |-> ValidStage, fs |-> ValidStage, link |-> "ok", uniforms |-> << "tex", "nmap" >>]

\* A valid pair of shaders, changed in at most one respect.
ProgInputs ==
       { [DefaultProgInput EXCEPT !.vs = st] : st \in StageInputs }
  \cup { [DefaultProgInput EXCEPT !.fs = st] : st \in StageInputs }
  \cup { [DefaultProgInput EXCEPT !.link = l] : l \in {"ok", "warn", "bad"} }
  \cup { [DefaultProgInput EXCEPT !.uniforms = u] : u \in UniformLists }

\* Every program is the valid pair except at most one.
ProgConfigs ==
  { [i \in PROGRAM_ID |-> IF i = v THEN in ELSE DefaultProgInput] :
      v \in PROGRAM_ID, in \in ProgInputs }

\* readShader: the text handed to glShaderSource, and whether the process
\* survives the read. The stream is never tested: for a missing file tellg()
\* is -1, the buffer has length 0 and buffer[-1] is written.
readShaderSource(st) == IF st.file = "missing" THEN st.garbage ELSE st.file

readShaderCrashes(st) == st.file = "missing" /\ st.ub = "crash_read"

deleteCrashes(st) == st.file = "missing" /\ st.ub = "crash_free"

ShaderLogLine(sh) == << "ShaderInfoLog", sh >>

ProgramLogLine(p) == << "ProgramInfoLog", p >>

printShaderLog(g, sh) ==
  IF g.shaders[sh].log THEN printf(g, ShaderLogLine(sh)) ELSE g

printProgramLog(g, p) ==
  IF g.progs[p].log THEN printf(g, ProgramLogLine(p)) ELSE g

NoProgInfo ==
  [state |-> "none", handle |-> 0, vert |-> 0, frag |-> 0,
   unreadable |-> FALSE, printed |-> << >>]

\* One pass of the loop body for program index i.
compileOne(s, in, i) ==
  LET gp == glCreateProgram(s.g)
      p == gp.pnames
      gv == glCreateShader(gp, "GL_VERTEX_SHADER")
      vert == gv.pnames
      gf == glCreateShader(gv, "GL_FRAGMENT_SHADER")
      frag == gf.pnames
      progs1 == [s.programs EXCEPT ![i] = p]
      unreadable == in.vs.file = "missing" \/ in.fs.file = "missing"
      g1 == glShaderSource(gf, vert, readShaderSource(in.vs))
      g2 == glShaderSource(g1, frag, readShaderSource(in.fs))
      g3 == printShaderLog(glCompileShader(g2, vert), vert)
      g4 == printShaderLog(glCompileShader(g3, frag), frag)
      g5 == glAttachShader(glAttachShader(g4, p, vert), p, frag)
      g6 == printProgramLog(glLinkProgram(g5, p, in.link, in.uniforms), p)
      base == [state |-> "done", handle |-> p, vert |-> vert, frag |-> frag,
               unreadable |-> unreadable,
               printed |-> SubSeq(g6.out, Len(s.g.out) + 1, Len(g6.out))]
  IN  IF readShaderCrashes(in.vs) \/ readShaderCrashes(in.fs)
        THEN [g |-> [gf EXCEPT !.crashed = TRUE], programs |-> progs1,
              info |-> [s.info EXCEPT ![i] =
                          [base EXCEPT !.state = "crashed", !.printed = << >>]]]
      ELSE IF deleteCrashes(in.vs) \/ deleteCrashes(in.fs)
        THEN [g |-> [g6 EXCEPT !.crashed = TRUE], programs |-> progs1,
              info |-> [s.info EXCEPT ![i] = [base EXCEPT !.state = "crashed"]]]
      ELSE [g |-> g6, programs |-> progs1, info |-> [s.info EXCEPT ![i] = base]]

\* Faulty variant: the loop stops at the first program that fails to link.
RECURSIVE compileLoop_abortOnFailure(_, _, _)
compileLoop_abortOnFailure(s, cfg, i) ==
  IF i >= NUM_SHADERS \/ s.g.crashed THEN s
  ELSE LET t == compileOne(s, cfg[i], i) IN
       IF ~t.g.crashed /\ ~t.g.progs[t.programs[i]].linked
         THEN t
         ELSE compileLoop_abortOnFailure(t, cfg, i + 1)

\* for(int i = 0; i < NUM_SHADERS; i++) { ... }
RECURSIVE compileLoop(_, _, _)
compileLoop(s, cfg, i) ==
  IF i >= NUM_SHADERS \/ s.g.crashed THEN s
  ELSE compileLoop(compileOne(s, cfg[i], i), cfg, i + 1)

compileShaders(cfg) ==
  /\ ~crashed
  /\ compiles < MaxCompiles
  /\ LET s == compileLoop([g |-> GLState, programs |-> programs,
                           info |-> [i \in PROGRAM_ID |-> NoProgInfo]], cfg, 0)
     IN  /\ InstallGL(s.g)
         /\ programs' = s.programs
         /\ progInfo' = s.info
  /\ compiles' = compiles + 1
  /\ lastCall' = Call("compileShaders", "", -1)
  /\ UNCHANGED << textures, texInfo, loads >>
  /\ UNCHANGED << shaderVars, loggerVars >>

\* ----------------------------------------- enableProgram, disableProgram
\* Faulty variant: both samplers are set to unit 0.
enableProgramGL_sameUnit(g, progs, pid) ==
  LET g1 == glUseProgram(g, progs[pid])
      paramTex == ToGLuint(glGetUniformLocationValue(g1, progs[pid], "tex"))
      g2 == glGetUniformLocationState(g1, progs[pid], "tex")
      g3 == glUniform1i(g2, ToGLint(paramTex), 0)
      paramNmap == ToGLuint(glGetUniformLocationValue(g3, progs[pid], "nmap"))
      g4 == glGetUniformLocationState(g3, progs[pid], "nmap")
  IN  glUniform1i(g4, ToGLint(paramNmap), 0)

enableProgramGL(g, progs, pid) ==
  LET g1 == glUseProgram(g, progs[pid])
      paramTex == ToGLuint(glGetUniformLocationValue(g1, progs[pid], "tex"))
      g2 == glGetUniformLocationState(g1, progs[pid], "tex")
      g3 == glUniform1i(g2, ToGLint(paramTex), 0)
      paramNmap == ToGLuint(glGetUniformLocationValue(g3, progs[pid], "nmap"))
      g4 == glGetUniformLocationState(g3, progs[pid], "nmap")
  IN  glUniform1i(g4, ToGLint(paramNmap), 1)

enableProgram(pid) ==
  /\ ~crashed
  /\ InstallGL(enableProgramGL(GLState, programs, pid))
  /\ lastCall' = Call("enableProgram", "", pid)
  /\ UNCHANGED << textures, texInfo, loads, programs, progInfo, compiles >>
  /\ UNCHANGED << shaderVars, loggerVars >>

disableProgramGL(g) == glUseProgram(g, 0)

disableProgram ==
  /\ ~crashed
  /\ InstallGL(disableProgramGL(GLState))
  /\ lastCall' = Call("disableProgram", "", -1)
  /\ UNCHANGED << textures, texInfo, loads, programs, progInfo, compiles >>
  /\ UNCHANGED << shaderVars, loggerVars >>

\* ------------------------------------------------------------ Shader
\* The names resolved, and what the driver answers for the program behind
\* Shader::handle: a uniform location, an attribute location, -1 for a name
\* the program does not have.
Names == { "tex", "nmap", "position", "absent" }

glGetUniformLocationOf(name) ==
  CASE name = "tex" -> 0 [] name = "nmap" -> 1 [] name = "position" -> -1
    [] OTHER -> -1

glGetAttribLocationOf(name) ==
  CASE name = "position" -> 0 [] name = "tex" -> 2 [] OTHER -> -1

Cached(name) == \E e \in locationMap : e[1] = name

CachedLocation(name) == (CHOOSE e \in locationMap : e[1] = name)[2]

\* std::map::insert: no effect when the key is present.
MapInsert(m, name, loc) ==
  IF \E e \in m : e[1] = name THEN m ELSE m \cup { << name, loc >> }

\* Faulty variant: no lookup, every call queries the driver and stores the answer.
resolve_noLookup(fn, name, location) ==
  /\ gpuQueries[name] < 3
  /\ gpuQueries' = [gpuQueries EXCEPT ![name] = @ + 1]
  /\ locationMap' = { e \in locationMap : e[1] # name } \cup { << name, location >> }
  /\ lastResolve' = [fn |-> fn, name |-> name, ret |-> location, queried |-> TRUE]
  /\ returned' = [returned EXCEPT ![name] = @ \cup {location}]
  /\ UNCHANGED << resourceVars, loggerVars >>

\* uni/att: the cached location when the name is in locationMap, otherwise
\* one driver query whose answer is stored under the name and returned.
resolve(fn, name, location) ==
  /\ IF Cached(name)
       THEN /\ lastResolve' = [fn |-> fn, name |-> name, ret |-> CachedLocation(name),
                               queried |-> FALSE]
            /\ returned' = [returned EXCEPT ![name] = @ \cup {CachedLocation(name)}]
            /\ UNCHANGED << locationMap, gpuQueries >>
       ELSE /\ gpuQueries' = [gpuQueries EXCEPT ![name] = @ + 1]
            /\ locationMap' = MapInsert(locationMap, name, location)
            /\ lastResolve' = [fn |-> fn, name |-> name, ret |-> location,
                               queried |-> TRUE]
            /\ returned' = [returned EXCEPT ![name] = @ \cup {location}]
  /\ UNCHANGED << resourceVars, loggerVars >>

uni(name) == resolve("uni", name, glGetUniformLocationOf(name))

att(name) == resolve("att", name, glGetAttribLocationOf(name))

\* ------------------------------------------------------ StdoutLogger
\* Strings are sequences of characters.
Messages == { << >>, << "m", "s" >> }

Tags == { << >>, << "T" >> }

LogLevel == { "Verbose", "Warning", "Failure" }

\* Faulty variant: the tag and its space are written even when the tag is empty.
logOutput_alwaysTag(message, lvl, tag) == tag \o << " " >> \o message \o << "\n" >>

\* if (not tag.empty()) std::cout << tag << ' ';  std::cout << message << std::endl;
logOutput(message, lvl, tag) ==
  (IF tag # << >> THEN tag \o << " " >> ELSE << >>) \o message \o << "\n" >>

log(message, lvl, tag) ==
  /\ Len(logCalls) < MaxLogCalls
  /\ cout' = cout \o logOutput(message, lvl, tag)
  /\ logCalls' = Append(logCalls, [message |-> message, lvl |-> lvl, tag |-> tag])
  /\ UNCHANGED << resourceVars, shaderVars >>

\* ------------------------------------------------- specifications
\* Before any call: both tables hold zero, the driver has no objects,
\* unit 0 is active, no program is in use and no error is recorded.
Init ==
  /\ textures = [id \in TEXTURE_ID |-> 0]
  /\ texInfo = [id \in TEXTURE_ID |-> NoTexInfo]
  /\ loads = 0
  /\ texNames = 0
  /\ texObj = << >>
  /\ activeTexture = 0
  /\ boundTexture = [u \in {0, 1} |-> 0]
  /\ programs = [i \in PROGRAM_ID |-> 0]
  /\ progInfo = [i \in PROGRAM_ID |-> NoProgInfo]
  /\ compiles = 0
  /\ objNames = 0
  /\ shaderObj = << >>
  /\ progObj = << >>
  /\ currentProgram = 0
  /\ glErrors = << >>
  /\ stdout = << >>
  /\ crashed = FALSE
  /\ lastCall = Call("none", "", -1)
  /\ locationMap = {}
  /\ gpuQueries = [n \in Names |-> 0]
  /\ returned = [n \in Names |-> {}]
  /\ lastResolve = [fn |-> "none", name |-> "", ret |-> -1, queried |-> FALSE]
  /\ cout = << >>
  /\ logCalls = << >>

NextTex ==
  \/ \E cfg \in TexConfigs : loadTextures(cfg)
  \/ \E id \in TEXTURE_ID : bindTexture(id)

SpecTex == Init /\ [][NextTex]_vars

NextProg ==
  \/ \E cfg \in ProgConfigs : compileShaders(cfg)
  \/ \E pid \in PROGRAM_ID : enableProgram(pid)
  \/ disableProgram

SpecProg == Init /\ [][NextProg]_vars

NextShader ==
  \/ \E name \in Names : uni(name)
  \/ \E name \in Names : att(name)

SpecShader == Init /\ [][NextShader]_vars

NextLog ==
  \E message \in Messages, lvl \in LogLevel, tag \in Tags : log(message, lvl, tag)

SpecLog == Init /\ [][NextLog]_vars
\* ------------------------------------------------------------ claims
PairedNormalMap ==
  ("TID_WALL" :> "TID_WALL_NMAP") @@ ("TID_TILES" :> "TID_TILES_NMAP")
    @@ ("TID_ACID" :> "TID_ACID_NMAP")

\* C1: after bindTexture(id), whatever was bound before, unit 0 is bound to
\* textures[id]; for a paired identifier unit 1 is bound to the handle of its
\* normal map; for any other identifier unit 1 keeps its binding.
C1_BindTexture ==
  [][\A id \in TEXTURE_ID :
       lastCall' = Call("bindTexture", id, -1) =>
         /\ boundTexture'[0] = textures[id]
         /\ id \in DOMAIN PairedNormalMap =>
              boundTexture'[1] = textures[PairedNormalMap[id]]
         /\ id \notin DOMAIN PairedNormalMap =>
              boundTexture'[1] = boundTexture[1]]_vars

\* A normal map bound on its own, after TID_TILES was bound: unit 1 still
\* holds the tiles' normal map.
C1_Witness ==
  /\ loads = 1
  /\ lastCall = Call("bindTexture", "TID_WALL_NMAP", -1)
  /\ boundTexture[0] = textures["TID_WALL_NMAP"]
  /\ boundTexture[1] = textures["TID_TILES_NMAP"]
  /\ textures["TID_WALL_NMAP"] # textures["TID_TILES_NMAP"]

\* C2: once loadTextures has returned, every identifier's stored handle is
\* non-zero, and it is still the handle that load stored after any bindTexture
\* calls.
C2_HandlesStable ==
  (loads > 0 /\ ~crashed) =>
    \A id \in TEXTURE_ID :
      /\ textures[id] # 0
      /\ textures[id] = texInfo[id].handle

C2_Witness ==
  /\ loads > 0
  /\ ~crashed
  /\ lastCall.op = "bindTexture"
  /\ boundTexture[1] # 0
  /\ \E id \in TEXTURE_ID : ~texInfo[id].decoded /\ textures[id] # 0

\* C7 (as claimed): when the decoder yields no pixel data the load is a hard
\* failure: gluBuild2DMipmaps is not called for it, createTexture does not
\* return, and its handle is not stored for the identifier.
C7_DecodeFailureIsHard ==
  \A id \in TEXTURE_ID :
    (texInfo[id].state # "none" /\ ~texInfo[id].decoded) =>
      /\ ~texInfo[id].uploadCalled
      /\ texInfo[id].state # "returned"
      /\ textures[id] # texInfo[id].handle

\* C8: each createTexture call that returns has printed one line per error
\* pending at the start of its polling loop, in the order glGetError reports
\* them, its handle is the one stored, and when loadTextures returns no
\* error is pending.
C8_ErrorsDrained ==
  /\ \A id \in TEXTURE_ID :
       texInfo[id].state = "returned" =>
         /\ texInfo[id].logged =
              [k \in 1..Len(texInfo[id].pending) |->
                 << "Error: ", texInfo[id].pending[k] >>]
         /\ textures[id] = texInfo[id].handle
         /\ textures[id] # 0
  /\ (lastCall.op = "loadTextures" /\ ~crashed) => glErrors = << >>

C8_Witness ==
  /\ lastCall.op = "loadTextures"
  /\ ~crashed
  /\ glErrors = << >>
  /\ \E id \in TEXTURE_ID :
       /\ texInfo[id].state = "returned"
       /\ Len(texInfo[id].pending) >= 2
       /\ texInfo[id].pending[1] # texInfo[id].pending[2]
       /\ Len(stdout) = Len(texInfo[id].pending)
       /\ textures[id] # 0

ExpectedLogs(i) ==
  LET p == progInfo[i].handle
      v == progInfo[i].vert
      f == progInfo[i].frag
  IN  (IF shaderObj[v].log THEN << << "ShaderInfoLog", v >> >> ELSE << >>)
      \o (IF shaderObj[f].log THEN << << "ShaderInfoLog", f >> >> ELSE << >>)
      \o (IF progObj[p].log THEN << << "ProgramInfoLog", p >> >> ELSE << >>)

\* C4: for every program index the loop body completes for, whatever the
\* compile and link results, programs[i] holds the created program, both
\* stages are attached, the link was run and every non-empty log was printed;
\* compileShaders returns with every index done, and only an unreadable
\* source file (never a compile or link failure) can end it early.
C4_SoftFail ==
  /\ \A i \in PROGRAM_ID :
       progInfo[i].state = "done" =>
         /\ programs[i] # 0
         /\ programs[i] = progInfo[i].handle
         /\ programs[i] \in DOMAIN progObj
         /\ progObj[programs[i]].attached = {progInfo[i].vert, progInfo[i].frag}
         /\ progInfo[i].vert # progInfo[i].frag
         /\ progObj[programs[i]].linkRun
         /\ progInfo[i].printed = ExpectedLogs(i)
  /\ (compiles > 0 /\ ~crashed) => \A i \in PROGRAM_ID : progInfo[i].state = "done"
  /\ (compiles > 0 /\ crashed) => \E i \in PROGRAM_ID : progInfo[i].unreadable

\* Program 0's vertex shader is readable and fails to compile; both logs are
\* printed and program 1 is still built and linked.
C4_Witness ==
  /\ lastCall.op = "compileShaders"
  /\ ~crashed
  /\ progInfo[0].state = "done"
  /\ ~progInfo[0].unreadable
  /\ ~shaderObj[progInfo[0].vert].compiled
  /\ ~progObj[programs[0]].linked
  /\ Len(progInfo[0].printed) = 2
  /\ progInfo[1].state = "done"
  /\ progObj[programs[1]].linked

SamplerIs(objs, p, name, unit) ==
  \A k \in 1..Len(objs[p].uniforms) :
    objs[p].uniforms[k] = name => objs[p].values[k] = unit

\* C5 (as claimed): after every enableProgram(pid) the current program is
\* programs[pid] with its samplers tex and nmap on units 0 and 1; after
\* disableProgram the current program is zero.
C5_EnableAlwaysActivates ==
  /\ lastCall.op = "enableProgram" =>
       /\ currentProgram = programs[lastCall.pid]
       /\ currentProgram # 0 =>
            /\ SamplerIs(progObj, currentProgram, "tex", 0)
            /\ SamplerIs(progObj, currentProgram, "nmap", 1)
  /\ lastCall.op = "disableProgram" => currentProgram = 0

\* C5 (amended): enableProgram(pid) makes programs[pid] current when it is
\* zero or successfully linked, and then sets each of the samplers tex and
\* nmap the program has to units 0 and 1, on every call; for a program that
\* failed to link it leaves the current program and every uniform as they
\* were. disableProgram makes zero current. Neither changes programs.
C5_EnableDisable ==
  [][/\ \A pid \in PROGRAM_ID :
          lastCall' = Call("enableProgram", "", pid) =>
            /\ programs' = programs
            /\ IF programs[pid] = 0
                 THEN currentProgram' = 0
               ELSE IF progObj[programs[pid]].linked
                 THEN /\ currentProgram' = programs[pid]
                      /\ SamplerIs(progObj', programs[pid], "tex", 0)
                      /\ SamplerIs(progObj', programs[pid], "nmap", 1)
               ELSE /\ currentProgram' = currentProgram
                    /\ progObj' = progObj
     /\ lastCall'.op = "disableProgram" =>
          /\ currentProgram' = 0
          /\ programs' = programs]_vars

\* Program 1 is enabled with nmap on unit 1 after an attempt to enable
\* program 0, which failed to link and left its error behind.
C5_Witness ==
  /\ lastCall = Call("enableProgram", "", 1)
  /\ programs[0] # 0
  /\ ~progObj[programs[0]].linked
  /\ currentProgram = programs[1]
  /\ currentProgram # 0
  /\ progObj[currentProgram].uniforms = << "tex", "nmap" >>
  /\ progObj[currentProgram].values = << 0, 1 >>
  /\ glErrors # << >>

\* C6 (as claimed): an unreadable shader source is a hard failure: the
\* program created for that index is not installed in programs, nothing is
\* compiled from the source and the link is not run.
C6_UnreadableIsHard ==
  \A i \in PROGRAM_ID :
    progInfo[i].unreadable =>
      /\ programs[i] # progInfo[i].handle
      /\ ~shaderObj[progInfo[i].vert].compiled
      /\ ~shaderObj[progInfo[i].frag].compiled
      /\ ~progObj[progInfo[i].handle].linkRun

C3_LocationCached ==
  /\ \A n \in Names :
       /\ gpuQueries[n] <= 1
       /\ Cardinality({ e \in locationMap : e[1] = n }) <= 1
       /\ Cardinality(returned[n]) <= 1
       /\ gpuQueries[n] = 1 <=> returned[n] # {}
  /\ lastResolve.fn # "none" =>
       << lastResolve.name, lastResolve.ret >> \in locationMap

\* att("tex") after uni("tex"): answered from the map with the location the
\* first call stored, without a second query.
C3_Witness ==
  /\ lastResolve = [fn |-> "att", name |-> "tex", ret |-> 0, queried |-> FALSE]
  /\ gpuQueries["tex"] = 1
  /\ << "tex", 0 >> \in locationMap

ExpectedLine(c) ==
  IF c.tag = << >>
    THEN c.message \o << "\n" >>
    ELSE c.tag \o << " " >> \o c.message \o << "\n" >>

RECURSIVE ExpectedOutput(_)
ExpectedOutput(calls) ==
  IF calls = << >> THEN << >>
  ELSE ExpectedLine(Head(calls)) \o ExpectedOutput(Tail(calls))

\* C10: the sink holds, in call order, for each log call its tag, a space,
\* the message and a newline when the tag is non-empty, and the message and
\* a newline when it is empty, whatever the level.
C10_LogOutput == cout = ExpectedOutput(logCalls)

C10_Witness ==
  /\ Len(logCalls) = 3
  /\ logCalls[1].tag = << >>
  /\ logCalls[2].tag # << >>
  /\ logCalls[1].lvl # logCalls[2].lvl
  /\ logCalls[2].message # << >>
  /\ cout = << "\n", "T", " ", "m", "s", "\n", "m", "s", "\n" >>
====
